---------------------------- MODULE Spec2Model ----------------------------
(***************************************************************************)
(* BlockingQueue<T> of rocketmq/src/blocking_queue.rs: a VecDeque behind a *)
(* tokio Mutex, a capacity, and one tokio Notify shared by producers and   *)
(* consumers.  Every call of put / offer / take / poll is one context      *)
(* (task) of the model; a context's position in the code is pc[p], named   *)
(* after the source line it is about to execute.                           *)
(*                                                                         *)
(* tokio::sync::Notify is modelled by what notify_one / notified() do:     *)
(* one stored permit, a FIFO list of registered waiters, and the set of    *)
(* waiters that were handed a notification and have not yet been polled    *)
(* again.  tokio::time::timeout drops the inner future at a point where it *)
(* is pending (lock().await with the lock held, or notified().await).      *)
(***************************************************************************)
EXTENDS Integers, Sequences, FiniteSets, Bags, TLC

\* Number of calls (one context per call) and largest capacity explored.
NumProcs == 4
MaxCapacity == 2

Procs == 1..NumProcs
Ops == {"put", "offer", "take", "poll"}

VARIABLES
    capacity,     \* BlockingQueue.capacity
    buffer,       \* BlockingQueue.queue: the VecDeque, head first
    lockOwner,    \* Mutex: holder of the MutexGuard of queue, or the queued
                  \*   lock() future the lock has been handed to; 0 when free
    lockQueue,    \* Mutex: lock() futures queued on the lock, oldest first
    permit,       \* Notify: a stored notify_one permit
    waiters,      \* Notify: registered Notified futures, oldest first
    notified,     \* Notify: waiters handed a notification, not yet re-polled
    budgetUsed,   \* contexts whose future, in its current poll, has already
                  \*   drawn on the task's cooperative budget at lock().await
    plan,         \* which operation context p calls, if it calls at all
    pc,           \* position of context p
    item,         \* put/offer: the argument; take/poll: the popped element
    result,       \* value returned by the call of p
    appendedLog,  \* history: values in the order push_back appended them
    removedLog,   \* history: values in the order pop_front removed them
    fired,        \* history: notify_one calls made by the call of p
    start,        \* history: buffer and log lengths when the call of p began
    moved,        \* history: the mutations of the buffer made by the call of p
    alone,        \* history: no other call has overlapped the call of p
    suspended,    \* history: the calls that registered on the signal
    woken,        \* history: calls that took a wake and have not re-checked
    raced         \* history: calls that saw a notify_one by another call
                  \*          between their failed check and their wait

vars == <<capacity, buffer, lockOwner, lockQueue, permit, waiters, notified,
          budgetUsed,
          plan, pc,
          item, result, appendedLog, removedLog, fired, start, moved, alone,
          suspended, woken, raced>>

queueVars == <<capacity, buffer>>
notifyVars == <<permit, waiters, notified>>
histVars ==
    <<appendedLog, removedLog, fired, start, moved, alone, suspended, woken,
      raced>>

IsProducer(p) == plan[p] \in {"put", "offer"}
IsConsumer(p) == plan[p] \in {"take", "poll"}
IsTimed(p) == plan[p] \in {"offer", "poll"}

\* Contexts are interchangeable, so only plans listing the operations in a
\* fixed order are explored, and contexts with the same operation make
\* their calls in the order of their numbers.  A context need not call.
OpRank(o) ==
    CASE o = "put" -> 1 [] o = "take" -> 2 [] o = "offer" -> 3
      [] o = "poll" -> 4

Plans ==
    { f \in [Procs -> Ops] :
        \A p \in Procs : p + 1 \in Procs => OpRank(f[p]) <= OpRank(f[p + 1]) }

InTurn(p) ==
    (p - 1 \in Procs /\ plan[p - 1] = plan[p]) => pc[p - 1] # "idle"

NoResult == [ok |-> FALSE, val |-> 0]
NoStart == [buf |-> <<>>, app |-> 0, rem |-> 0]

\* BlockingQueue::new(capacity): empty VecDeque, Notify::new() (no permit).
Init ==
    /\ capacity \in 0..MaxCapacity
    /\ buffer = <<>>
    /\ lockOwner = 0
    /\ lockQueue = <<>>
    /\ permit = FALSE
    /\ waiters = <<>>
    /\ notified = {}
    /\ budgetUsed = {}
    /\ plan \in Plans
    /\ pc = [p \in Procs |-> "idle"]
    /\ item = [p \in Procs |-> 0]
    /\ result = [p \in Procs |-> NoResult]
    /\ appendedLog = <<>>
    /\ removedLog = <<>>
    /\ fired = [p \in Procs |-> 0]
    /\ start = [p \in Procs |-> NoStart]
    /\ moved = [p \in Procs |-> <<>>]
    /\ alone = [p \in Procs |-> FALSE]
    /\ suspended = {}
    /\ woken = {}
    /\ raced = {}

-----------------------------------------------------------------------------
\* Notify::notify_one: hand the notification to the oldest registered
\* waiter; with no waiter, store one permit (a second one is not added).
notify_one(n) ==
    IF n.waiters # <<>>
    THEN [permit |-> n.permit,
          waiters |-> Tail(n.waiters),
          notified |-> n.notified \cup {Head(n.waiters)}]
    ELSE [permit |-> TRUE, waiters |-> n.waiters, notified |-> n.notified]

NotifyState == [permit |-> permit, waiters |-> waiters, notified |-> notified]

SetNotify(n) ==
    /\ permit' = n.permit
    /\ waiters' = n.waiters
    /\ notified' = n.notified

RemoveWaiter(ws, p) == SelectSeq(ws, LAMBDA q : q # p)

\* Variant of drop_notified: every dropped future calls notify_one, whether
\* or not it had been handed a notification.
drop_notified_Fire(n, p) ==
    notify_one([n EXCEPT !.waiters = RemoveWaiter(n.waiters, p),
                         !.notified = n.notified \ {p}])

\* Drop of a Notified future: leave the wait list; a notification already
\* handed to it by notify_one and not consumed is passed on.
drop_notified(n, p) ==
    IF p \in n.notified
    THEN notify_one([n EXCEPT !.notified = n.notified \ {p}])
    ELSE [n EXCEPT !.waiters = RemoveWaiter(n.waiters, p)]

LockState == [owner |-> lockOwner, queue |-> lockQueue]

SetLock(m) ==
    /\ lockOwner' = m.owner
    /\ lockQueue' = m.queue

\* Drop of the MutexGuard: the lock is handed to the oldest queued lock()
\* future, which holds it from then on although it has not been polled;
\* with nobody queued the lock is free.
drop_guard(m) ==
    IF m.queue # <<>>
    THEN [owner |-> Head(m.queue), queue |-> Tail(m.queue)]
    ELSE [owner |-> 0, queue |-> m.queue]

\* Drop of a queued lock() future: it leaves the queue, and gives back the
\* lock if the lock had been handed to it.
drop_acquire(m, p) ==
    IF m.owner = p
    THEN drop_guard(m)
    ELSE [m EXCEPT !.queue = RemoveWaiter(m.queue, p)]

-----------------------------------------------------------------------------
Active(p) == pc[p] \notin {"idle", "done"}

\* A caller enters put / offer / take / poll.  The value put by context p
\* is p, so that all values are distinct.
Call(p) ==
    /\ pc[p] = "idle"
    /\ InTurn(p)
    /\ pc' = [pc EXCEPT ![p] = "lock"]
    /\ item' = [item EXCEPT ![p] = IF IsProducer(p) THEN p ELSE 0]
    /\ start' = [start EXCEPT ![p] = [buf |-> buffer,
                                      app |-> Len(appendedLog),
                                      rem |-> Len(removedLog)]]
    /\ alone' = [q \in Procs |->
                    IF q = p THEN \A r \in Procs \ {p} : ~Active(r)
                    ELSE alone[q] /\ ~Active(q)]
    /\ UNCHANGED <<queueVars, lockOwner, lockQueue, notifyVars, budgetUsed,
                   plan, result, appendedLog, removedLog, fired, moved,
                   suspended, woken, raced>>

\* Variant of Lock: the guard is handed out although the lock is held.
Lock_NoWait(p) ==
    /\ pc[p] = "lock"
    /\ lockOwner' = p
    /\ budgetUsed' = budgetUsed \cup {p}
    /\ pc' = [pc EXCEPT ![p] = "check"]
    /\ UNCHANGED <<queueVars, lockQueue, notifyVars, plan, item, result,
                   histVars>>

\* self.queue.lock().await (lines 42, 60), first poll: the guard is handed
\* out when the lock is free, which draws on the cooperative budget of the
\* task that polls the future; otherwise the future queues on the lock and
\* the poll ends.
Lock(p) ==
    /\ pc[p] = "lock"
    /\ \/ /\ lockOwner = 0
          /\ lockOwner' = p
          /\ budgetUsed' = budgetUsed \cup {p}
          /\ pc' = [pc EXCEPT ![p] = "check"]
          /\ UNCHANGED lockQueue
       \/ /\ lockOwner # 0
          /\ lockQueue' = Append(lockQueue, p)
          /\ budgetUsed' = budgetUsed \ {p}
          /\ pc' = [pc EXCEPT ![p] = "queued"]
          /\ UNCHANGED lockOwner
    /\ UNCHANGED <<queueVars, notifyVars, plan, item, result, histVars>>

\* lines 42, 60: a queued lock() future that has been handed the lock is
\* polled again and yields the guard.
Acquired(p) ==
    /\ pc[p] = "queued"
    /\ lockOwner = p
    /\ budgetUsed' = budgetUsed \cup {p}
    /\ pc' = [pc EXCEPT ![p] = "check"]
    /\ UNCHANGED <<queueVars, lockOwner, lockQueue, notifyVars, plan, item,
                   result, histVars>>

\* Variant of HasRoom: capacity 0 is taken to mean unbounded.
HasRoom_ZeroUnbounded(q, cap) == cap = 0 \/ Len(q) < cap

\* Variant of HasRoom: the comparison off by one.
HasRoom_OffByOne(q, cap) == Len(q) <= cap

\* Variant of HasRoom: the check is missing.
HasRoom_Always(q, cap) == TRUE

\* line 43: queue.len() < self.capacity
HasRoom(q, cap) == Len(q) < cap

\* Variant of push_back: the item is put at the head.
push_front(q, x) == <<x>> \o q

\* line 44: VecDeque::push_back
push_back(q, x) == Append(q, x)

\* Variant of pop_front: the head is read and stays in the deque.
pop_front_Peek(q) ==
    IF q = <<>>
    THEN [some |-> FALSE, val |-> 0, rest |-> q]
    ELSE [some |-> TRUE, val |-> Head(q), rest |-> q]

\* Variant of pop_front: an empty deque yields a default element.
pop_front_Default(q) ==
    IF q = <<>>
    THEN [some |-> TRUE, val |-> 0, rest |-> q]
    ELSE [some |-> TRUE, val |-> Head(q), rest |-> Tail(q)]

\* Variant of pop_front: the element is taken from the tail (pop_back).
pop_front_Back(q) ==
    IF q = <<>>
    THEN [some |-> FALSE, val |-> 0, rest |-> q]
    ELSE [some |-> TRUE, val |-> q[Len(q)], rest |-> SubSeq(q, 1, Len(q) - 1)]

\* line 61: VecDeque::pop_front, an Option: None on an empty deque, else
\* the head, which leaves the deque.
pop_front(q) ==
    IF q = <<>>
    THEN [some |-> FALSE, val |-> 0, rest |-> q]
    ELSE [some |-> TRUE, val |-> Head(q), rest |-> Tail(q)]

\* History record of one mutation of the buffer.
Mutation(v, before, after) == [val |-> v, before |-> before, after |-> after]

\* put, lines 43-44: if queue.len() < self.capacity { queue.push_back(item)
PutCheck(p) ==
    /\ pc[p] = "check"
    /\ IsProducer(p)
    /\ \/ /\ HasRoom(buffer, capacity)
          /\ buffer' = push_back(buffer, item[p])
          /\ appendedLog' = Append(appendedLog, item[p])
          /\ moved' = [moved EXCEPT ![p] =
                Append(@, Mutation(item[p], buffer, buffer'))]
          /\ pc' = [pc EXCEPT ![p] = "notify"]
       \/ /\ ~HasRoom(buffer, capacity)
          /\ pc' = [pc EXCEPT ![p] = "unlock"]
          /\ UNCHANGED <<buffer, appendedLog, moved>>
    /\ woken' = woken \ {p}
    /\ raced' = raced \ {p}
    /\ UNCHANGED <<capacity, lockOwner, lockQueue, notifyVars, budgetUsed,
                   plan, item, result, removedLog, fired, start, alone,
                   suspended>>

\* take, line 61: if let Some(item) = queue.pop_front()
TakeCheck(p) ==
    /\ pc[p] = "check"
    /\ IsConsumer(p)
    /\ LET r == pop_front(buffer) IN
       \/ /\ r.some
          /\ item' = [item EXCEPT ![p] = r.val]
          /\ buffer' = r.rest
          /\ removedLog' = Append(removedLog, r.val)
          /\ moved' = [moved EXCEPT ![p] =
                Append(@, Mutation(r.val, buffer, buffer'))]
          /\ pc' = [pc EXCEPT ![p] = "notify"]
       \/ /\ ~r.some
          /\ pc' = [pc EXCEPT ![p] = "unlock"]
          /\ UNCHANGED <<buffer, item, removedLog, moved>>
    /\ woken' = woken \ {p}
    /\ raced' = raced \ {p}
    /\ UNCHANGED <<capacity, lockOwner, lockQueue, notifyVars, budgetUsed,
                   plan, result, appendedLog, fired, start, alone, suspended>>

\* Variant of NotifyOne: the guard is dropped before notify_one is called.
NotifyOne_Released(p) ==
    /\ pc[p] = "notify"
    /\ SetLock(drop_guard(LockState))
    /\ SetNotify(notify_one(NotifyState))
    /\ fired' = [fired EXCEPT ![p] = @ + 1]
    /\ pc' = [pc EXCEPT ![p] = "return"]
    /\ raced' = raced \cup { q \in Procs : pc[q] = "wait" }
    /\ UNCHANGED <<queueVars, budgetUsed, plan, item, result, appendedLog,
                   removedLog, start, moved, alone, suspended, woken>>

\* lines 45, 62: self.notify.notify_one(), the guard still held.
NotifyOne(p) ==
    /\ pc[p] = "notify"
    /\ SetNotify(notify_one(NotifyState))
    /\ fired' = [fired EXCEPT ![p] = @ + 1]
    /\ pc' = [pc EXCEPT ![p] = "return"]
    /\ raced' = raced \cup { q \in Procs : pc[q] = "wait" }
    /\ UNCHANGED <<queueVars, lockOwner, lockQueue, budgetUsed, plan, item,
                   result, appendedLog, removedLog, start, moved, alone,
                   suspended, woken>>

\* Variant of Completed: the popped element is not handed back.
Completed_NoItem(p) == [ok |-> TRUE, val |-> 0]

\* What the caller gets when the inner put / take completes: () for put,
\* timeout(..).is_ok() for offer, the element for take, .ok() for poll.
Completed(p) ==
    [ok |-> TRUE, val |-> IF IsConsumer(p) THEN item[p] ELSE 0]

\* Variant of Elapsed: the elapsed deadline is reported as success.
Elapsed_IsOk(p) == [ok |-> TRUE, val |-> 0]

\* What the caller of offer / poll gets when the deadline elapsed:
\* Err(Elapsed).is_ok() = false, Err(Elapsed).ok() = None.
Elapsed(p) == [ok |-> FALSE, val |-> 0]

\* lines 46, 63: return; the guard is dropped on the way out.
Return(p) ==
    /\ pc[p] = "return"
    /\ SetLock(drop_guard(LockState))
    /\ result' = [result EXCEPT ![p] = Completed(p)]
    /\ pc' = [pc EXCEPT ![p] = "done"]
    /\ budgetUsed' = budgetUsed \ {p}
    /\ UNCHANGED <<queueVars, notifyVars, plan, item, histVars>>

\* Variant of Unlock: the guard is kept across notified().await.
Unlock_KeepGuard(p) ==
    /\ pc[p] = "unlock"
    /\ pc' = [pc EXCEPT ![p] = "wait"]
    /\ UNCHANGED <<queueVars, lockOwner, lockQueue, notifyVars, budgetUsed,
                   plan, item, result, histVars>>

\* lines 48, 65: end of the block, the guard is dropped.
Unlock(p) ==
    /\ pc[p] = "unlock"
    /\ SetLock(drop_guard(LockState))
    /\ pc' = [pc EXCEPT ![p] = "wait"]
    /\ UNCHANGED <<queueVars, notifyVars, budgetUsed, plan, item, result,
                   histVars>>

\* lines 49, 66: first poll of self.notify.notified(): a stored permit is
\* consumed and the loop continues within the same poll, otherwise the
\* future registers and the poll ends; the next poll has a budget of its
\* own.
Notified(p) ==
    /\ pc[p] = "wait"
    /\ \/ /\ permit
          /\ permit' = FALSE
          /\ pc' = [pc EXCEPT ![p] = "lock"]
          /\ woken' = woken \cup {p}
          /\ UNCHANGED <<waiters, notified, budgetUsed, suspended>>
       \/ /\ ~permit
          /\ waiters' = Append(waiters, p)
          /\ pc' = [pc EXCEPT ![p] = "waiting"]
          /\ suspended' = suspended \cup {p}
          /\ budgetUsed' = budgetUsed \ {p}
          /\ UNCHANGED <<permit, notified, woken>>
    /\ UNCHANGED <<queueVars, lockOwner, lockQueue, plan, item, result,
                   appendedLog, removedLog, fired, start, moved, alone, raced>>

\* lines 49, 66: a notified waiter is polled again and loops.
Wake(p) ==
    /\ pc[p] = "waiting"
    /\ p \in notified
    /\ notified' = notified \ {p}
    /\ pc' = [pc EXCEPT ![p] = "lock"]
    /\ woken' = woken \cup {p}
    /\ UNCHANGED <<queueVars, lockOwner, lockQueue, permit, waiters,
                   budgetUsed, plan, item, result, appendedLog, removedLog,
                   fired, start, moved, alone, suspended, raced>>

\* Variant of Pending: the deadline is looked at before the first poll of
\* the inner future, so lock().await counts as pending with the lock free.
Pending_BeforeFirstPoll(p) ==
    \/ pc[p] = "lock"
    \/ pc[p] = "queued"
    \/ pc[p] = "waiting"

\* Variant of Pending: one more await point, between the mutation and
\* notify_one.
Pending_AfterMutation(p) ==
    \/ pc[p] = "lock" /\ p \in budgetUsed
    \/ pc[p] = "queued"
    \/ pc[p] = "waiting"
    \/ pc[p] = "notify"

\* The await points of put / take, where the future can be pending and so
\* can be dropped: lock().await (lines 42, 60) with the cooperative budget
\* used up, which can only be so when this poll has drawn on it before
\* (time::timeout looks at the deadline with the budget used up only when
\* the budget ran out during its poll of the inner future); lock().await
\* once queued on the lock, also when the lock has been handed to it since
\* it was polled; and notified().await once registered (lines 49, 66).
Pending(p) ==
    \/ pc[p] = "lock" /\ p \in budgetUsed
    \/ pc[p] = "queued"
    \/ pc[p] = "waiting"

\* offer / poll, lines 54, 71: the deadline elapses while the inner future
\* is pending; time::timeout drops it and yields Err(Elapsed).
Timeout(p) ==
    /\ IsTimed(p)
    /\ Pending(p)
    /\ IF pc[p] = "waiting"
       THEN SetNotify(drop_notified(NotifyState, p))
       ELSE UNCHANGED notifyVars
    /\ IF pc[p] = "queued"
       THEN SetLock(drop_acquire(LockState, p))
       ELSE UNCHANGED <<lockOwner, lockQueue>>
    /\ result' = [result EXCEPT ![p] = Elapsed(p)]
    /\ pc' = [pc EXCEPT ![p] = "done"]
    /\ budgetUsed' = budgetUsed \ {p}
    /\ woken' = woken \ {p}
    /\ raced' = raced \ {p}
    /\ UNCHANGED <<queueVars, plan, item, appendedLog, removedLog, fired,
                   start, moved, alone, suspended>>

\* A step of a call in progress.
Step(p) ==
        \/ Lock(p)
        \/ Acquired(p)
        \/ PutCheck(p)
        \/ TakeCheck(p)
        \/ NotifyOne(p)
        \/ Return(p)
        \/ Unlock(p)
        \/ Notified(p)
        \/ Wake(p)
        \/ Timeout(p)

Next == \E p \in Procs : Call(p) \/ Step(p)

Spec == Init /\ [][Next]_vars

-----------------------------------------------------------------------------
\* Vocabulary of the properties.

Range(s) == { s[i] : i \in DOMAIN s }
Count(s, v) == Cardinality({ i \in DOMAIN s : s[i] = v })
\* Position of the first occurrence of v in s, 0 when absent.
Pos(s, v) ==
    IF v \in Range(s) THEN CHOOSE i \in DOMAIN s :
                              s[i] = v /\ \A j \in DOMAIN s : s[j] = v => i <= j
    ELSE 0
BagOfSeq(s) == [v \in Range(s) |-> Count(s, v)]
IsPrefix(s, t) == Len(s) <= Len(t) /\ \A i \in DOMAIN s : s[i] = t[i]

Done(p) == pc[p] = "done"
\* The call of p returned (), true, an element or Some(element).
Succeeded(p) == Done(p) /\ result[p].ok
\* The call of p returned false or None.
GaveUp(p) == Done(p) /\ ~result[p].ok
Returned(S) == { p \in S : Succeeded(p) }
Producers == { p \in Procs : IsProducer(p) }
Consumers == { p \in Procs : IsConsumer(p) }
AllReturned == \A p \in Procs : Done(p)

-----------------------------------------------------------------------------
\* C1: with capacity >= 1, in every reachable state, whatever put, offer,
\* take and poll calls are interleaved and whichever of them were abandoned
\* by their timeout, the buffer holds between 0 and capacity elements.
C1_LengthWithinCapacity ==
    capacity >= 1 => 0 <= Len(buffer) /\ Len(buffer) <= capacity

\* C1: the buffer is full, a producer is suspended on the signal and a
\* timed call has already been abandoned.
C1_Witness ==
    /\ capacity >= 1
    /\ Len(buffer) = capacity
    /\ \E p \in Producers : pc[p] = "waiting"
    /\ \E q \in Procs : IsTimed(q) /\ GaveUp(q)

\* C2: elements leave in the order they entered.  (a) Under any
\* interleaving the values removed so far, in removal order, are a prefix
\* of the values appended, in append order.  (b) A consumer call that began
\* after another one had removed its element returns a value appended
\* later than that one's, so N sequential puts followed by N sequential
\* takes return v1..vN in order.  (c) Round trip: a take that began with
\* the buffer holding exactly x and ran with no other call overlapping
\* returns x and leaves the buffer empty.
C2_Fifo ==
    /\ IsPrefix(removedLog, appendedLog)
    /\ \A p, q \in Returned(Consumers) :
          (p # q /\ Pos(removedLog, result[p].val) <= start[q].rem)
              => Pos(appendedLog, result[p].val) < Pos(appendedLog, result[q].val)
    /\ \A p \in Consumers :
          (Done(p) /\ alone[p] /\ Len(start[p].buf) = 1
             /\ Len(removedLog) = start[p].rem + 1
             /\ Len(appendedLog) = start[p].app)
              => result[p] = [ok |-> TRUE, val |-> start[p].buf[1]]
                 /\ buffer = <<>>

\* C2: two puts completed, then two takes completed one after the other,
\* on a queue of capacity at least 2 that held both values at once.
C2_Witness ==
    /\ capacity >= 2
    /\ \A p \in Procs : Done(p) /\ alone[p]
    /\ \E p, q \in Returned(Consumers) :
          /\ plan[p] = "take" /\ plan[q] = "take"
          /\ Len(start[p].buf) = 2
          /\ start[q].rem = start[p].rem + 1
          /\ result[p].val = appendedLog[1]
          /\ result[q].val = appendedLog[2]

\* C3: nothing is lost or duplicated.  In every state the values appended
\* are, as a multiset, the values removed plus the values in the buffer;
\* whenever no call is inside its critical section, the values appended
\* are exactly the arguments of the put / offer calls that returned
\* success and the values removed are exactly the results of the take /
\* poll calls that returned an element; and once every call has returned
\* with the buffer empty, as many items were inserted as removed.
C3_NoLossNoDuplication ==
    /\ BagOfSeq(appendedLog) = BagOfSeq(removedLog) (+) BagOfSeq(buffer)
    /\ (\A p \in Procs :
            pc[p] \notin {"check", "notify", "return", "unlock"}) =>
          /\ BagOfSeq(appendedLog) = SetToBag(Returned(Producers))
          /\ BagOfSeq(removedLog) =
                SetToBag({ result[p].val : p \in Returned(Consumers) })
          /\ Cardinality(Returned(Consumers)) = Len(removedLog)
    /\ (AllReturned /\ buffer = <<>>) =>
          Cardinality(Returned(Producers)) = Cardinality(Returned(Consumers))

\* C3: two producers and two consumers have all returned under contention:
\* one producer began on a full buffer and one consumer on an empty one.
C3_Witness ==
    /\ capacity >= 1
    /\ AllReturned
    /\ buffer = <<>>
    /\ Cardinality(Returned(Producers)) = 2
    /\ Cardinality(Returned(Consumers)) = 2
    /\ \E p \in Producers : Len(start[p].buf) = capacity
    /\ \E p \in Consumers : start[p].buf = <<>>
    /\ \A p \in Procs : ~alone[p]

\* The calls made so far.
Called == { p \in Procs : pc[p] # "idle" }
\* No call in progress can take a step: whatever returns from now on
\* returns only if a further call is made.
Quiescent == \A p \in Procs : ~ENABLED Step(p)

\* C4: with capacity >= 1, when the calls made are P put calls and C take
\* calls with C <= P <= C + capacity, they never come to a stop before all
\* of them have returned: as long as one of them has not returned, some
\* call can take a step (so under a fair scheduler every call returns).
C4_NoDeadlock ==
    LET P == Cardinality({ p \in Called : plan[p] = "put" })
        C == Cardinality({ p \in Called : plan[p] = "take" })
    IN  (/\ capacity >= 1
         /\ \A p \in Called : plan[p] \in {"put", "take"}
         /\ C <= P /\ P <= C + capacity
         /\ Quiescent)
            => \A p \in Called : Done(p)

\* C4: put(1) returned, put(2) and take() are both suspended on the signal
\* although the buffer holds an element.
C4_Stuck ==
    /\ capacity >= 1
    /\ \A p \in Called : plan[p] \in {"put", "take"}
    /\ Quiescent
    /\ \E p \in Called : IsConsumer(p) /\ pc[p] = "waiting" /\ buffer # <<>>

Offers == { p \in Procs : plan[p] = "offer" }
Polls == { p \in Procs : plan[p] = "poll" }

\* C5: a take (or a poll that returns an element) begun on an empty buffer
\* returns only after an element was appended after its start, and returns
\* such an element; when exactly one element was appended since its start,
\* it returns that one.
C5_TakeOnEmptyWaitsForPut ==
    \A p \in Returned(Consumers) :
        start[p].buf = <<>> =>
            /\ Len(appendedLog) > start[p].app
            /\ Pos(appendedLog, result[p].val) > start[p].app
            /\ Len(appendedLog) = start[p].app + 1
                  => result[p].val = appendedLog[Len(appendedLog)]

\* C5: a take that began on an empty buffer and suspended on the signal
\* has returned the one element put since.
C5_Witness ==
    \E p \in Returned(Consumers) :
        /\ plan[p] = "take"
        /\ start[p].buf = <<>>
        /\ p \in suspended
        /\ Len(appendedLog) = start[p].app + 1
        /\ result[p].val = appendedLog[Len(appendedLog)]

\* C6: whenever a put (or a successful offer) has returned, its item was
\* appended exactly once, at the tail, to a buffer that then held fewer
\* than capacity elements; and if the call began on a full buffer, an
\* element was removed after its start.
C6_PutOnFullWaitsForTake ==
    \A p \in Returned(Producers) :
        /\ Len(moved[p]) = 1
        /\ moved[p][1].val = item[p]
        /\ Len(moved[p][1].before) < capacity
        /\ moved[p][1].after = Append(moved[p][1].before, item[p])
        /\ Count(appendedLog, item[p]) = 1
        /\ Len(start[p].buf) = capacity => Len(removedLog) > start[p].rem

\* C6: a put that began on a full buffer and suspended on the signal has
\* returned after a removal.
C6_Witness ==
    \E p \in Returned(Producers) :
        /\ plan[p] = "put"
        /\ capacity >= 1
        /\ Len(start[p].buf) = capacity
        /\ p \in suspended
        /\ Len(removedLog) > start[p].rem

\* C7: an offer begun on a full buffer from which nothing has been removed
\* by the time it returns has returned false, the buffer is the sequence
\* it was when the call began, and the item was not appended; nor is the
\* item of an offer that returned false appended or buffered later.
C7_OfferTimesOutOnFull ==
    \A p \in Offers :
        /\ (Done(p) /\ Len(start[p].buf) = capacity
              /\ Len(removedLog) = start[p].rem)
              => /\ result[p] = [ok |-> FALSE, val |-> 0]
                 /\ buffer = start[p].buf
                 /\ moved[p] = <<>>
        /\ GaveUp(p) => p \notin Range(appendedLog) /\ p \notin Range(buffer)

\* C7: an offer that began on a full buffer, suspended and was abandoned,
\* nothing having been removed.
C7_Witness ==
    \E p \in Offers :
        /\ capacity >= 1
        /\ GaveUp(p)
        /\ p \in suspended
        /\ Len(start[p].buf) = capacity
        /\ Len(removedLog) = start[p].rem
        /\ buffer = start[p].buf

\* C8: a poll begun on an empty buffer to which nothing has been appended
\* by the time it returns has returned None, the buffer is still empty,
\* and the call has removed nothing and made no notify_one call.
C8_PollTimesOutOnEmpty ==
    \A p \in Polls :
        (Done(p) /\ start[p].buf = <<>> /\ Len(appendedLog) = start[p].app)
            => /\ result[p] = [ok |-> FALSE, val |-> 0]
               /\ buffer = <<>>
               /\ moved[p] = <<>>
               /\ fired[p] = 0

\* C8: a poll that began on an empty buffer, suspended and was abandoned,
\* nothing having been appended.
C8_Witness ==
    \E p \in Polls :
        /\ GaveUp(p)
        /\ p \in suspended
        /\ start[p].buf = <<>>
        /\ Len(appendedLog) = start[p].app
        /\ buffer = <<>>

\* C9: an offer that has returned returned true exactly when this call
\* appended its item, once, and false exactly when the item was never
\* appended (and is not in the buffer); an offer that ran with no other
\* call overlapping, on a buffer with room, returned true with its item at
\* the tail.
C9_OfferAllOrNothing ==
    \A p \in Offers :
        Done(p) =>
            /\ result[p].ok <=>
                  /\ Len(moved[p]) = 1
                  /\ moved[p][1].val = p
                  /\ Count(appendedLog, p) = 1
            /\ ~result[p].ok <=>
                  /\ moved[p] = <<>>
                  /\ Count(appendedLog, p) = 0
                  /\ p \notin Range(buffer)
            /\ (alone[p] /\ Len(start[p].buf) < capacity)
                  => /\ result[p].ok
                     /\ moved[p][1].after = Append(start[p].buf, p)

\* C9: one offer returned true with no contention, another one suspended
\* on the full buffer and returned false.
C9_Witness ==
    \E p, q \in Offers :
        /\ Succeeded(p) /\ alone[p]
        /\ GaveUp(q) /\ q \in suspended
        /\ p \in Range(buffer)

\* C10: a poll that has returned returned Some(v) exactly when this call
\* removed one element, v, the head of the buffer when it was removed, and
\* None exactly when it removed nothing; a poll that ran with no other call
\* overlapping, on a non-empty buffer, returned Some(head).
C10_PollAllOrNothing ==
    \A p \in Polls :
        Done(p) =>
            /\ result[p].ok <=> Len(moved[p]) = 1
            /\ ~result[p].ok <=> moved[p] = <<>>
            /\ result[p].ok =>
                  /\ moved[p][1].before # <<>>
                  /\ result[p].val = Head(moved[p][1].before)
                  /\ moved[p][1].after = Tail(moved[p][1].before)
                  /\ Count(removedLog, result[p].val) = 1
            /\ ~result[p].ok => result[p].val = 0
            /\ (alone[p] /\ start[p].buf # <<>>)
                  => result[p] = [ok |-> TRUE, val |-> Head(start[p].buf)]

\* C10: one poll returned the head of a buffer of two with no contention,
\* another one suspended on the empty buffer and returned None.
C10_Witness ==
    \E p, q \in Polls :
        /\ Succeeded(p) /\ alone[p] /\ Len(start[p].buf) = 2
        /\ GaveUp(q) /\ q \in suspended

\* C11: a queue constructed with capacity 0 is refused at construction, so
\* no operation is ever called on such a queue.
C11_ZeroCapacityRejected ==
    capacity = 0 => Called = {}

\* C11: on a queue built with capacity 0 a poll has been called and has
\* returned, like on any other queue.
C11_ZeroCapacityInUse ==
    /\ capacity = 0
    /\ \E p \in Polls : GaveUp(p)

\* C12: a deadline cannot cut an offer short before its first check.  No
\* step abandons an offer that holds the lock, or that is about to take the
\* free lock in a poll that has not yet drawn on the cooperative budget;
\* the check of an offer made with room appends the item at the tail; and
\* once the item is appended the offer returns true.
C12_OfferProbesOnce ==
    [][\A p \in Offers :
          /\ (pc[p] = "lock" /\ lockOwner = 0 /\ p \notin budgetUsed)
                => pc'[p] \in {"lock", "check"}
          /\ (pc[p] = "check" /\ Len(buffer) < capacity)
                => \/ pc'[p] = "check" /\ buffer' = buffer
                   \/ pc'[p] = "notify" /\ buffer' = Append(buffer, p)
          /\ pc[p] = "notify" => pc'[p] \in {"notify", "return"}
          /\ pc[p] = "return"
                => \/ pc'[p] = "return"
                   \/ pc'[p] = "done" /\ result'[p].ok]_vars

\* C12: an offer that found the lock free and room at its first check, and
\* never suspended, has returned true with its item appended.
C12_Witness ==
    \E p \in Offers :
        /\ Succeeded(p)
        /\ p \notin suspended
        /\ ~alone[p]
        /\ Len(moved[p]) = 1
        /\ moved[p][1].before = start[p].buf

\* The condition context p waits for holds.
CanProceed(p) ==
    IF IsProducer(p) THEN Len(buffer) < capacity ELSE buffer # <<>>

\* Suspended on the signal with no notification handed over.
Asleep(p) == pc[p] = "waiting" /\ p \notin notified

\* Some wake is still on its way: a stored permit, a notified waiter that
\* has not re-checked, or a context that is not asleep and still running.
WakePending ==
    \/ permit
    \/ notified # {}
    \/ lockOwner # 0
    \/ \E q \in Procs : pc[q] \in {"lock", "queued", "check", "notify",
                                     "return", "unlock", "wait"}

\* C13: no missed wake-up: whenever a context is suspended on the signal
\* while the condition it waits for holds, a wake is still pending.
C13_NoMissedWakeup ==
    \A p \in Procs : (Asleep(p) /\ CanProceed(p)) => WakePending

\* C13: a take and a put are both asleep, the buffer holds an element, and
\* no wake is pending.
C13_Stuck ==
    /\ ~WakePending
    /\ \E p \in Consumers : Asleep(p) /\ CanProceed(p)
    /\ \E p \in Producers : Asleep(p)

\* C14: the wait/notify race is closed: a context that failed its check
\* and released the lock, and saw another context's notify_one before it
\* registered on the signal, is not left asleep with its condition true
\* and no wake pending.
C14_RaceClosed ==
    \A p \in Procs :
        (Asleep(p) /\ p \in raced /\ CanProceed(p)) => WakePending

\* C14: a take that lost the race is asleep with an element in the buffer
\* and nothing left to wake it.
C14_Stuck ==
    \E p \in Consumers :
        /\ plan[p] = "take"
        /\ Asleep(p) /\ p \in raced /\ CanProceed(p)
        /\ ~WakePending

\* The step abandons the timed call of p.
Abandons(p) == IsTimed(p) /\ pc[p] # "done" /\ pc'[p] = "done" /\ ~result'[p].ok

\* C15: an offer or poll abandoned by its deadline is no longer registered
\* on the signal and is never handed a wake afterwards; and when a call
\* that has been suspended on the signal is abandoned holding a wake it has
\* not acted on (handed over by notify_one, or taken without a re-check
\* since) while a remaining waiter's condition holds, the wake goes to a
\* remaining waiter.
C15_CleanAbandon ==
    /\ [](\A p \in Procs :
            GaveUp(p) => p \notin Range(waiters) /\ p \notin notified)
    /\ [][\A p \in Procs :
            (/\ Abandons(p)
             /\ p \in suspended
             /\ p \in notified \/ p \in woken
             /\ \E q \in Range(waiters') : CanProceed(q))
                => notified' \ notified # {}]_vars

\* C15: a poll that had been suspended gave up, and a take is left asleep
\* although the buffer holds an element, no producer is asleep and nothing
\* is left to wake the take.
C15_LostWake ==
    /\ ~WakePending
    /\ \E p \in Polls : GaveUp(p) /\ p \in suspended
    /\ \E q \in Consumers : plan[q] = "take" /\ Asleep(q) /\ CanProceed(q)
    /\ \A q \in Producers : ~Asleep(q)

\* Wakes held by the signal: the stored permit and the notifications
\* handed to waiters that have not yet been polled again.
Wakes == Cardinality(notified) + (IF permit THEN 1 ELSE 0)

\* The call of p has mutated the buffer and is still in its critical
\* section.
Committed(p) == pc[p] \in {"notify", "return"}

\* C16: the signal is fired only by a committed mutation, once each: a call
\* has fired once when it has mutated the buffer and passed notify_one, and
\* not at all otherwise (in particular not after a failed check and not
\* when abandoned); a firing is made by a call whose own mutation is in
\* the buffer; and the wakes held by the signal never grow in a step that
\* is not such a firing.
C16_FiredByMutation ==
    /\ [](\A p \in Procs :
            /\ fired[p] = IF pc[p] = "return" \/ Succeeded(p) THEN 1 ELSE 0
            /\ Len(moved[p]) = IF Committed(p) \/ Succeeded(p) THEN 1 ELSE 0)
    /\ [][/\ \A p \in Procs :
               fired'[p] # fired[p]
                  => /\ fired'[p] = fired[p] + 1
                     /\ Len(moved[p]) = 1
                     /\ buffer = moved[p][1].after
                     /\ buffer' = buffer
                     /\ IsProducer(p) => item[p] \in Range(buffer)
                     /\ IsConsumer(p) => item[p] \notin Range(buffer)
          /\ Wakes' > Wakes => \E p \in Procs : fired'[p] # fired[p]]_vars

\* C16: an offer that had been suspended was abandoned, a producer has
\* failed its check, and a put and a take have each mutated the buffer and
\* fired once.
C16_Witness ==
    /\ \E p \in Offers : GaveUp(p) /\ p \in suspended
    /\ \E p \in Producers : pc[p] \in {"unlock", "wait", "waiting"}
    /\ \E p \in Consumers : Succeeded(p) /\ fired[p] = 1
    /\ \E p \in Producers : Succeeded(p) /\ fired[p] = 1

\* The critical section of the buffer lock.
InCritical(p) == pc[p] \in {"check", "notify", "return", "unlock"}

\* C17: check and mutation are one critical section: a context inside a
\* critical section is the holder of the lock, so there is at most one,
\* and the holder is inside one unless the lock was handed to it while it
\* was queued and it has not run since;
\* and while a context that has mutated the buffer is still inside, the
\* buffer is what its mutation left, the mutation being the append to (or
\* removal of the head of) the very buffer whose length it checked.
C17_AtomicCheckThenAct ==
    /\ lockOwner \in Procs \cup {0}
    /\ \A p \in Procs : InCritical(p) => lockOwner = p
    /\ \A p \in Procs : lockOwner = p => InCritical(p) \/ pc[p] = "queued"
    /\ \A p \in Procs :
          Committed(p)
             => /\ Len(moved[p]) = 1
                /\ buffer = moved[p][1].after
                /\ IsProducer(p)
                      => /\ Len(moved[p][1].before) < capacity
                         /\ moved[p][1].after
                               = Append(moved[p][1].before, item[p])
                /\ IsConsumer(p)
                      => /\ moved[p][1].before # <<>>
                         /\ item[p] = Head(moved[p][1].before)
                         /\ moved[p][1].after = Tail(moved[p][1].before)

\* C17: a producer has appended and is still inside its critical section
\* while another producer and a consumer wait for the lock.
C17_Witness ==
    \E p, q \in Producers : \E r \in Consumers :
        /\ p # q
        /\ Committed(p)
        /\ pc[q] = "queued" /\ pc[r] = "queued"

\* C18: a context that is about to wait or is suspended on the signal does
\* not hold the lock, and the lock is only ever held by a context inside
\* its critical section or by a queued one it was handed to, so a context
\* at lock().await is never kept out by one suspended on the signal.
C18_NoLockWhileSuspended ==
    /\ \A p \in Procs : pc[p] \in {"wait", "waiting"} => lockOwner # p
    /\ lockOwner # 0 => InCritical(lockOwner) \/ pc[lockOwner] = "queued"
    /\ (\A p \in Procs : pc[p] \in {"idle", "lock", "wait", "waiting", "done"})
          => lockOwner = 0

\* C18: a producer is suspended on a full queue while a consumer has taken
\* the lock and removed an element.
C18_Witness ==
    \E p \in Producers : \E q \in Consumers :
        /\ Asleep(p)
        /\ Len(moved[q]) = 1 /\ Committed(q)
        /\ Len(moved[q][1].before) = capacity

\* C19 as stated: when a call fires the signal it has already released the
\* lock.
C19_FireAfterRelease ==
    [][\A p \in Procs : fired'[p] # fired[p] => lockOwner # p]_vars

\* C19, amended: a successful call mutates the buffer, then fires the
\* signal once while it still holds the lock, and releases the lock only
\* on returning.
C19_FireBeforeRelease ==
    [][\A p \in Procs :
          /\ fired'[p] # fired[p]
                => /\ lockOwner = p /\ lockOwner' = p
                   /\ Len(moved[p]) = 1
                   /\ fired[p] = 0 /\ fired'[p] = 1
          /\ (lockOwner = p /\ lockOwner' # p /\ moved[p] # <<>>)
                => /\ fired[p] = 1
                   /\ Succeeded(p)']_vars

\* C19: a put has appended and fired the signal and still holds the lock.
C19_Witness ==
    \E p \in Producers :
        /\ plan[p] = "put"
        /\ pc[p] = "return"
        /\ lockOwner = p
        /\ fired[p] = 1
        /\ p \in Range(buffer)

\* C20: a queue of capacity 0 is always full: its buffer stays empty, no
\* put returns, every offer that returns returns false, no element is ever
\* returned by take or poll, and the signal is never fired.
C20_ZeroCapacityAlwaysFull ==
    capacity = 0
       => /\ buffer = <<>>
          /\ appendedLog = <<>>
          /\ \A p \in Producers : ~Succeeded(p)
          /\ \A p \in Consumers : ~Succeeded(p)
          /\ \A p \in Procs : plan[p] \in {"put", "take"} => ~Done(p)
          /\ \A p \in Procs : fired[p] = 0
          /\ ~permit /\ notified = {}

\* C20: on a queue of capacity 0 an offer has returned false, a poll has
\* returned None and a put is suspended.
C20_Witness ==
    /\ capacity = 0
    /\ \E p \in Offers : GaveUp(p)
    /\ \E p \in Polls : GaveUp(p)
    /\ \E p \in Producers : plan[p] = "put" /\ Asleep(p)

-----------------------------------------------------------------------------
=============================================================================
